---- MODULE Spec2Model ----
(***************************************************************************)
(* A model of src/imager.py: the EthoscopeImager object (ImageExtractor,   *)
(* Annotator and VideoMaker combined), the snapshot directory it writes    *)
(* to, the archive it queries and the external tools it shells out to.     *)
(*                                                                         *)
(* Text (paths, predicates, statements) is a string, read and built        *)
(* character by character with Len, SubSeq and \o, so that formatting,     *)
(* parsing and str.replace are computed and not assumed.                   *)
(***************************************************************************)
EXTENDS Integers, Sequences, FiniteSets, TLC

(***************************************************************************)
(* Bounds of the model.                                                    *)
(***************************************************************************)
MaxRows == 2
MaxCalls == 2
MaxStageCalls == 3
MaxList == 2

(***************************************************************************)
(* Text helpers: the parts of Python's str and os.path that the program    *)
(* uses.                                                                   *)
(***************************************************************************)
Char(s, i) == SubSeq(s, i, i)

DigitChars == "0123456789"

IsDigit(c) == \E d \in 1..10 : Char(DigitChars, d) = c

DigitValue(c) == (CHOOSE d \in 1..10 : Char(DigitChars, d) = c) - 1

RECURSIVE NatStr(_)
NatStr(n) ==
  IF n < 10 THEN Char(DigitChars, n + 1)
  ELSE NatStr(n \div 10) \o Char(DigitChars, (n % 10) + 1)

\* str(n) and "%i" % n for an integer n
IntStr(n) == IF n < 0 THEN "-" \o NatStr(-n) ELSE NatStr(n)

RECURSIVE Zeros(_)
Zeros(k) == IF k <= 0 THEN "" ELSE "0" \o Zeros(k - 1)

\* "%05d" % n: the sign first, then zeros up to a total width of 5
Pad5(n) ==
  LET body == NatStr(IF n < 0 THEN -n ELSE n)
      sign == IF n < 0 THEN "-" ELSE ""
  IN sign \o Zeros(5 - Len(sign) - Len(body)) \o body

StartsWith(s, p) == Len(p) <= Len(s) /\ SubSeq(s, 1, Len(p)) = p

EndsWith(s, p) == Len(p) <= Len(s) /\ SubSeq(s, Len(s) - Len(p) + 1, Len(s)) = p

Drop(s, k) == SubSeq(s, k + 1, Len(s))

\* s holds p at index i
MatchAt(s, p, i) == i + Len(p) - 1 <= Len(s) /\ SubSeq(s, i, i + Len(p) - 1) = p

\* str.replace(old, new): every non-overlapping occurrence, left to right
RECURSIVE ReplaceFrom(_, _, _, _)
ReplaceFrom(s, old, new, i) ==
  IF i > Len(s) THEN ""
  ELSE IF MatchAt(s, old, i) THEN new \o ReplaceFrom(s, old, new, i + Len(old))
  ELSE Char(s, i) \o ReplaceFrom(s, old, new, i + 1)

Replace(s, old, new) == ReplaceFrom(s, old, new, 1)

\* the first index from i on where s holds the character c, or 0
RECURSIVE IndexFrom(_, _, _)
IndexFrom(s, c, i) ==
  IF i > Len(s) THEN 0 ELSE IF Char(s, i) = c THEN i ELSE IndexFrom(s, c, i + 1)

\* str.split(sep) for a one-character separator: a sequence of pieces
RECURSIVE SplitFrom(_, _, _)
SplitFrom(s, sep, i) ==
  LET j == IndexFrom(s, sep, i)
  IN IF j = 0 THEN <<SubSeq(s, i, Len(s))>>
     ELSE <<SubSeq(s, i, j - 1)>> \o SplitFrom(s, sep, j + 1)

Split(s, sep) == SplitFrom(s, sep, 1)

\* sep.join(pieces)
RECURSIVE JoinStr(_, _)
JoinStr(pieces, sep) ==
  IF pieces = <<>> THEN ""
  ELSE IF Len(pieces) = 1 THEN pieces[1]
  ELSE pieces[1] \o sep \o JoinStr(Tail(pieces), sep)

IsIntText(s) ==
  LET body == IF StartsWith(s, "-") THEN Drop(s, 1) ELSE s
  IN body # "" /\ \A i \in 1..Len(body) : IsDigit(Char(body, i))

RECURSIVE NatVal(_)
NatVal(s) ==
  IF s = "" THEN 0 ELSE 10 * NatVal(SubSeq(s, 1, Len(s) - 1)) + DigitValue(Char(s, Len(s)))

\* int(s) for a text that IsIntText
IntVal(s) == IF StartsWith(s, "-") THEN 0 - NatVal(Drop(s, 1)) ELSE NatVal(s)

\* the last index up to i where p holds "/", or 0
RECURSIVE LastSlashUpTo(_, _)
LastSlashUpTo(p, i) ==
  IF i = 0 THEN 0 ELSE IF Char(p, i) = "/" THEN i ELSE LastSlashUpTo(p, i - 1)

LastSlash(p) == LastSlashUpTo(p, Len(p))

\* os.path.basename
Basename(p) == Drop(p, LastSlash(p))

\* os.path.dirname (of a path without doubled or trailing slashes)
Dirname(p) == IF LastSlash(p) = 1 THEN "/" ELSE SubSeq(p, 1, LastSlash(p) - 1)

\* os.path.join of a directory and a relative name
PathJoin(a, b) ==
  IF a = "" THEN b
  ELSE IF EndsWith(a, "/") THEN a \o b
  ELSE a \o "/" \o b

(***************************************************************************)
(* The text literals of the program.                                       *)
(***************************************************************************)
S_SELECT == "SELECT id, t, img FROM IMG_SNAPSHOTS WHERE "

S_TEMPLATE == "{id_criteria} {flag} {t_criteria}"

S_IMG == "IMG_SNAPSHOTS"

S_RAWJPG == "_raw.jpg"

S_JPG == ".jpg"

S_RAW == "_raw"

S_MP4 == ".mp4"

S_IN == " in ("

S_EQ == " = "

S_ID == "id"

S_T == "t"

S_NONE == "None"

(***************************************************************************)
(* Python values that reach the filter parameters: None, an int, a str, or *)
(* a list of ints and strs.                                                *)
(***************************************************************************)
PyNone == [type |-> "NoneType", val |-> 0]

PyInt(n) == [type |-> "int", val |-> n]

PyStr(s) == [type |-> "str", val |-> s]

PyList(s) == [type |-> "list", val |-> s]

IsNone(v) == v.type = "NoneType"

\* str(e)
Str(e) ==
  IF e.type = "int" THEN IntStr(e.val)
  ELSE IF e.type = "str" THEN e.val
  ELSE S_NONE

\* What a call gives back: exc is "" on a normal return and the name of the
\* exception otherwise.
Return(v) == [exc |-> "", val |-> v]

Raise(e) == [exc |-> e, val |-> ""]

\* a variant that lists each value once, as a set of the values would
RECURSIVE DistinctFrom(_, _)
DistinctFrom(l, i) ==
  IF i > Len(l) THEN <<>>
  ELSE IF \E j \in 1..(i - 1) : l[j] = l[i] THEN DistinctFrom(l, i + 1)
  ELSE <<l[i]>> \o DistinctFrom(l, i + 1)

make_criteria_distinct(column, value) ==
  IF value.type = "list"
  THEN Return(column \o " in ("
              \o JoinStr([i \in 1..Len(DistinctFrom(value.val, 1)) |->
                            Str(DistinctFrom(value.val, 1)[i])], ",")
              \o ")")
  ELSE Raise("NameError")

(***************************************************************************)
(* ImageExtractor.make_criteria.  A list of any content takes the first    *)
(* branch.  Every other value reaches isinstance(value, Integer), and the  *)
(* name Integer is bound nowhere in the file, so evaluating the test       *)
(* raises NameError; the equality branch and the final raise are never     *)
(* reached.                                                                *)
(***************************************************************************)
make_criteria(column, value) ==
  IF value.type = "list"
  THEN Return(column \o S_IN
              \o JoinStr([i \in 1..Len(value.val) |-> Str(value.val[i])], ",")
              \o ")")
  ELSE Raise("NameError")

(***************************************************************************)
(* EthoscopeImager.get_criteria(id, t).  The connective is no parameter of *)
(* it, and the combined predicate is a plain string literal, not an        *)
(* f-string: the braces are sent as they are.                              *)
(***************************************************************************)
get_criteria(id, t) ==
  LET id_criteria == make_criteria(S_ID, id)
      t_criteria == make_criteria(S_T, t)
  IN IF ~IsNone(id) /\ id_criteria.exc # "" THEN Raise(id_criteria.exc)
     ELSE IF ~IsNone(t) /\ t_criteria.exc # "" THEN Raise(t_criteria.exc)
     ELSE IF IsNone(id) /\ IsNone(t) THEN Return(PyNone)
     ELSE IF ~IsNone(id) /\ ~IsNone(t) THEN Return(PyStr(S_TEMPLATE))
     ELSE IF IsNone(id) /\ ~IsNone(t) THEN Return(PyStr(t_criteria.val))
     ELSE Return(PyStr(id_criteria.val))

(***************************************************************************)
(* The archive's answer to the statement get_frame sends.  The predicate   *)
(* after WHERE is read the way SQLite reads the two shapes make_criteria   *)
(* can produce, <column> in (<integers>) and <column> = <integer>, over    *)
(* the columns id and t; any other text is an error of the statement.      *)
(***************************************************************************)
Statement(criteria) == S_SELECT \o criteria

Columns == {S_ID, S_T}

ParseIn(w) ==
  IF \E c \in Columns : StartsWith(w, c \o S_IN) /\ EndsWith(w, ")")
  THEN LET c == CHOOSE c \in Columns : StartsWith(w, c \o S_IN)
           inner == SubSeq(w, Len(c) + Len(S_IN) + 1, Len(w) - 1)
           pieces == IF inner = "" THEN <<>> ELSE Split(inner, ",")
       IN IF \A i \in 1..Len(pieces) : IsIntText(pieces[i])
          THEN [ok |-> TRUE, col |-> c, vals |-> [i \in 1..Len(pieces) |-> IntVal(pieces[i])]]
          ELSE [ok |-> FALSE, col |-> c, vals |-> <<>>]
  ELSE [ok |-> FALSE, col |-> "", vals |-> <<>>]

ParseEq(w) ==
  IF \E c \in Columns : StartsWith(w, c \o S_EQ) /\ IsIntText(Drop(w, Len(c) + Len(S_EQ)))
  THEN LET c == CHOOSE c \in Columns : StartsWith(w, c \o S_EQ)
       IN [ok |-> TRUE, col |-> c, vals |-> <<IntVal(Drop(w, Len(c) + Len(S_EQ)))>>]
  ELSE [ok |-> FALSE, col |-> "", vals |-> <<>>]

ParsePredicate(w) == IF ParseIn(w).ok THEN ParseIn(w) ELSE ParseEq(w)

Range(s) == {s[i] : i \in 1..Len(s)}

\* the indices of the rows of table the predicate selects, in table order
RECURSIVE Matching(_, _, _)
Matching(table, p, i) ==
  IF i > Len(table) THEN <<>>
  ELSE LET v == IF p.col = S_ID THEN table[i].id ELSE table[i].t
       IN (IF v \in Range(p.vals) THEN <<i>> ELSE <<>>) \o Matching(table, p, i + 1)

Select(table, statement) ==
  LET p == ParsePredicate(Drop(statement, Len(S_SELECT)))
  IN IF StartsWith(statement, S_SELECT) /\ p.ok
     THEN Return(Matching(table, p, 1))
     ELSE Raise("OperationalError")

(***************************************************************************)
(* The state.                                                              *)
(*   self      the fields __init__ sets: path, filename, experiment_folder,*)
(*             img_snapshots, t0                                           *)
(*   archive   the rows of the table IMG_SNAPSHOTS, in table order: the    *)
(*             record [id, t]; the image of row i is the blob i            *)
(*   files     the files on disk: path -> [kind, blob, label]              *)
(*   pc        where the call in progress stands: "idle" (no call),        *)
(*             "get_frame" (the cursor loop), "pool" (inside pool.map),    *)
(*             "finish" (run, after the annotation stage)                  *)
(*   call      the call in progress or the last one: its name, its         *)
(*             arguments, the statements it sent to the archive, the files *)
(*             save_frame wrote in it, the labeling-tool invocations it    *)
(*             made, and the disk as it was when its pool started          *)
(*   cursor    the row indices get_frame has still to fetch                *)
(*   filenames the local of that name in get_frame, annotate and run       *)
(*   tasks     pool_args with, per entry, how far annotate_image got       *)
(*   cores     the size of the pool                                        *)
(*   held      the list the caller got from its last get_frame             *)
(*   hist      the finished calls, each with what it gave back             *)
(***************************************************************************)
VARIABLES self, archive, files, pc, call, cursor, filenames, tasks, cores, held, hist

vars == <<self, archive, files, pc, call, cursor, filenames, tasks, cores, held, hist>>

ANNOTATE == TRUE

DefaultCores == 4

\* a local that holds None or a list
NoneList == [none |-> TRUE, list |-> <<>>]

List(l) == [none |-> FALSE, list |-> l]

\* Python truth of None or a list
Truthy(v) == ~v.none /\ v.list # <<>>

(***************************************************************************)
(* The disk.                                                               *)
(***************************************************************************)
Exists(fs, p) == p \in DOMAIN fs

Put(fs, p, c) == [q \in (DOMAIN fs) \cup {p} |-> IF q = p THEN c ELSE fs[q]]

Del(fs, p) == [q \in (DOMAIN fs) \ {p} |-> fs[q]]

RawContent(blob) == [kind |-> "raw", blob |-> blob, label |-> 0]

LabeledContent(blob, label) == [kind |-> "labeled", blob |-> blob, label |-> label]

VideoContent == [kind |-> "video", blob |-> 0, label |-> 0]

\* the directories that exist: the experiment folder and, since __init__,
\* the snapshot directory in it
DirExists(d) == d \in {self.experiment_folder, self.img_snapshots}

(***************************************************************************)
(* ImageExtractor.__init__                                                 *)
(***************************************************************************)
NewImager(path, t0) ==
  [path |-> path,
   filename |-> Basename(path),
   experiment_folder |-> Dirname(path),
   img_snapshots |-> PathJoin(Dirname(path), S_IMG),
   t0 |-> t0]

(***************************************************************************)
(* ImageExtractor.save_frame: the two paths, and what the call does: the   *)
(* disk after it (fs), the files it wrote (wrote) and what it returns.     *)
(***************************************************************************)
file_name_raw(id, t) ==
  PathJoin(PathJoin(self.experiment_folder, S_IMG), Pad5(id) \o "_" \o IntStr(t) \o S_RAWJPG)

file_name(id, t) ==
  PathJoin(PathJoin(self.experiment_folder, S_IMG), Pad5(id) \o "_" \o IntStr(t) \o S_JPG)

\* a variant without the test of line 67: it writes every time
save_frame_rewrites(fs, id, t, blob) ==
  [fs |-> Put(fs, file_name_raw(id, t), RawContent(blob)),
   wrote |-> <<file_name_raw(id, t)>>,
   ret |-> file_name_raw(id, t)]

\* a variant whose test of line 67 looks for the raw file only
save_frame_raw_only(fs, id, t, blob) ==
  IF Exists(fs, file_name_raw(id, t))
  THEN [fs |-> fs, wrote |-> <<>>, ret |-> file_name_raw(id, t)]
  ELSE [fs |-> Put(fs, file_name_raw(id, t), RawContent(blob)),
        wrote |-> <<file_name_raw(id, t)>>,
        ret |-> file_name_raw(id, t)]

save_frame(fs, id, t, blob) ==
  IF Exists(fs, file_name(id, t)) \/ Exists(fs, file_name_raw(id, t))
  THEN [fs |-> fs, wrote |-> <<>>, ret |-> file_name_raw(id, t)]
  ELSE [fs |-> Put(fs, file_name_raw(id, t), RawContent(blob)),
        wrote |-> <<file_name_raw(id, t)>>,
        ret |-> file_name_raw(id, t)]

(***************************************************************************)
(* ImageExtractor.list_snapshots: glob of *.jpg in the snapshot directory. *)
(* glob gives the names in the directory's order, which is any order.      *)
(***************************************************************************)
Snapshots(fs) ==
  {p \in DOMAIN fs : Dirname(p) = self.img_snapshots /\ EndsWith(Basename(p), S_JPG)}

Orderings(S) ==
  {s \in [1..Cardinality(S) -> S] : \A i, j \in 1..Cardinality(S) : i # j => s[i] # s[j]}

(***************************************************************************)
(* Annotator.make_pool: one entry (f, t) per file name, t parsed from the  *)
(* second underscore-separated field of the base name.                     *)
(***************************************************************************)
\* a variant that takes the first field of the name, the id
ParsedFirstField(f) ==
  LET fields == Split(Basename(f), "_")
      digits == Split(fields[1], ".")[1]
  IN IF IsIntText(digits) THEN Return(IntVal(digits)) ELSE Raise("ValueError")

ParsedT(f) ==
  LET fields == Split(Basename(f), "_")
  IN IF Len(fields) < 2 THEN Raise("IndexError")
     ELSE LET digits == Split(fields[2], ".")[1]
          IN IF IsIntText(digits) THEN Return(IntVal(digits)) ELSE Raise("ValueError")

make_pool(fnames) ==
  [i \in 1..Len(fnames) |->
     [f |-> fnames[i], t |-> ParsedT(fnames[i]).val, st |-> "queued",
      label |-> 0, out |-> "", ok |-> FALSE]]

(***************************************************************************)
(* Annotator.annotate_image: the label (the second of the epoch the        *)
(* date-time text is formatted from) and the output path.                  *)
(***************************************************************************)
\* a variant that takes the milliseconds for seconds
LabelUnscaled(time) == time + self.t0

Label(time) == (time \div 1000) + self.t0

Out(filename) == Replace(filename, S_RAW, "")

\* Annotator.annotate, line 183
Renamed(fnames) == [i \in 1..Len(fnames) |-> Replace(fnames[i], S_RAW, "")]

\* VideoMaker.make_video, line 200: the encoder takes '<dir>/*.jpg' as a glob
\* pattern and reads the matches in the order of their names, character by
\* character in the order of the character codes.
CharCode(c) ==
  IF c = "-" THEN 45
  ELSE IF c = "." THEN 46
  ELSE IF c = "/" THEN 47
  ELSE IF IsDigit(c) THEN 48 + DigitValue(c)
  ELSE IF c = "_" THEN 95
  ELSE IF c = "a" THEN 97
  ELSE IF c = "g" THEN 103
  ELSE IF c = "j" THEN 106
  ELSE IF c = "p" THEN 112
  ELSE IF c = "r" THEN 114
  ELSE IF c = "w" THEN 119
  ELSE 128

RECURSIVE LexLessFrom(_, _, _)
LexLessFrom(a, b, i) ==
  IF i > Len(b) THEN FALSE
  ELSE IF i > Len(a) THEN TRUE
  ELSE IF CharCode(Char(a, i)) < CharCode(Char(b, i)) THEN TRUE
  ELSE IF CharCode(Char(a, i)) > CharCode(Char(b, i)) THEN FALSE
  ELSE LexLessFrom(a, b, i + 1)

LexLess(a, b) == LexLessFrom(a, b, 1)

\* VideoMaker.make_video: the output path
VideoOutput == PathJoin(self.img_snapshots, self.filename \o S_MP4)

(***************************************************************************)
(* The inputs.                                                             *)
(***************************************************************************)
Ids == {3, 10}

Ts == {500, 2000}

T0s == {1700000000}

ArchivePaths == {"/e/db"}

Flags == {"OR", "AND"}

PoolSizes == {1, DefaultCores}

SeqsUpTo(S, n) == UNION {[1..k -> S] : k \in 0..n}

\* Tables of at most MaxRows rows, no two with the same (id, t), in the
\* order the recording wrote them: ascending id, and ascending t within an id.
Before(r, q) == r.id < q.id \/ (r.id = q.id /\ r.t < q.t)

Archives ==
  {a \in SeqsUpTo([id : Ids, t : Ts], MaxRows) :
     \A i, j \in 1..Len(a) : i < j => Before(a[i], a[j])}

\* the filter values a request of run carries
RunIdValues ==
  {PyNone, PyInt(3), PyStr("3"), PyList(<<>>), PyList(<<PyStr("a")>>),
   PyList(<<PyInt(3)>>), PyList(<<PyInt(3), PyInt(10)>>)}

RunTValues == {PyNone, PyList(<<PyInt(2000)>>)}

\* The requests: a caller names a connective when it gives both filters,
\* and asks for the annotation or for the video, not both.
Requests ==
  {r \in [id : RunIdValues, t : RunTValues, flag : Flags, annotate : BOOLEAN, video : BOOLEAN] :
     /\ (IsNone(r.id) \/ IsNone(r.t)) => r.flag = "OR"
     /\ ~(r.annotate /\ r.video)}

\* the values and column names a caller of make_criteria or get_criteria passes
Elements == {PyInt(-1), PyInt(3), PyInt(10), PyStr("a")}

FilterValues ==
  {PyNone, PyInt(-1), PyInt(3), PyInt(10), PyStr("3")}
    \cup {PyList(l) : l \in SeqsUpTo(Elements, MaxList)}

ColumnNames == {"id", "t", "img"}

\* the predicates a caller of get_frame passes
DirectCriteria ==
  {PyNone} \cup {PyStr(make_criteria(S_ID, v).val) : v \in {PyList(<<PyInt(3)>>), PyList(<<PyInt(3), PyInt(10)>>)}}

(***************************************************************************)
(* The end of a call: it is recorded with what it gave back, and its       *)
(* locals are gone.                                                        *)
(***************************************************************************)
NewCall(op, arg) ==
  [op |-> op, arg |-> arg, queries |-> <<>>, writes |-> <<>>, tool |-> {}, before |-> <<>>]

EndCall(c, r) ==
  /\ call' = c
  /\ hist' = Append(hist, [call |-> c, ret |-> r])
  /\ pc' = "idle"
  /\ cursor' = <<>>
  /\ filenames' = NoneList
  /\ tasks' = <<>>

Init ==
  /\ self \in {NewImager(p, t0) : p \in ArchivePaths, t0 \in T0s}
  /\ archive \in Archives
  /\ files = <<>>
  /\ pc = "idle"
  /\ call = NewCall("none", PyNone)
  /\ cursor = <<>>
  /\ filenames = NoneList
  /\ tasks = <<>>
  /\ cores = DefaultCores
  /\ held = NoneList
  /\ hist = <<>>

\* a variant whose answer to no criteria is the empty list
GetFrameEnterEmpty(c, criteria) ==
  IF IsNone(criteria)
  THEN /\ call' = c
       /\ pc' = "get_frame"
       /\ cursor' = <<>>
       /\ filenames' = [none |-> FALSE, list |-> <<>>]
       /\ UNCHANGED <<tasks, hist>>
  ELSE LET statement == "SELECT id, t, img FROM IMG_SNAPSHOTS WHERE " \o criteria.val
           sent == [c EXCEPT !.queries = Append(@, statement)]
           q == Select(archive, statement)
       IN IF q.exc # ""
          THEN EndCall(sent, [exc |-> q.exc, val |-> ""])
          ELSE /\ call' = sent
               /\ pc' = "get_frame"
               /\ cursor' = q.val
               /\ filenames' = [none |-> FALSE, list |-> <<>>]
               /\ UNCHANGED <<tasks, hist>>

(***************************************************************************)
(* ImageExtractor.get_frame, up to the cursor loop: None for no criteria,  *)
(* else the statement is executed, which raises or opens the cursor.       *)
(***************************************************************************)
GetFrameEnter(c, criteria) ==
  IF IsNone(criteria)
  THEN /\ call' = c
       /\ pc' = "get_frame"
       /\ cursor' = <<>>
       /\ filenames' = NoneList
       /\ UNCHANGED <<tasks, hist>>
  ELSE LET statement == Statement(criteria.val)
           sent == [c EXCEPT !.queries = Append(@, statement)]
           q == Select(archive, statement)
       IN IF q.exc # ""
          THEN EndCall(sent, Raise(q.exc))
          ELSE /\ call' = sent
               /\ pc' = "get_frame"
               /\ cursor' = q.val
               /\ filenames' = List(<<>>)
               /\ UNCHANGED <<tasks, hist>>

(***************************************************************************)
(* The caller of run: it makes one request with a filter and, after a      *)
(* failure, makes the same request again (the only retry there is); it may *)
(* ask for the listing, a request with no filter, at any time.             *)
(***************************************************************************)
NoFilter(arg) == IsNone(arg.id) /\ IsNone(arg.t)

Rerun(arg) ==
  \A k \in 1..Len(hist) :
     hist[k].call.op = "run" => hist[k].call.arg = arg \/ NoFilter(arg) \/ NoFilter(hist[k].call.arg)

(***************************************************************************)
(* EthoscopeImager.run, lines 233-234: the criteria, then get_frame.       *)
(***************************************************************************)
RunCall(r) ==
  /\ pc = "idle"
  /\ Rerun(r)
  /\ LET c == NewCall("run", r)
         criteria == get_criteria(r.id, r.t)
     IN IF criteria.exc # ""
        THEN EndCall(c, Raise(criteria.exc))
        ELSE GetFrameEnter(c, criteria.val)
  /\ UNCHANGED <<self, archive, files, cores, held>>

\* a caller's own call of get_frame
GetFrameCall(criteria) ==
  /\ pc = "idle"
  /\ GetFrameEnter(NewCall("get_frame", [criteria |-> criteria]), criteria)
  /\ UNCHANGED <<self, archive, files, cores, held>>

\* a caller's own call of save_frame, with row i of the table
SaveFrameCall(i) ==
  /\ pc = "idle"
  /\ LET saved == save_frame(files, archive[i].id, archive[i].t, i)
         c == NewCall("save_frame", [id |-> archive[i].id, t |-> archive[i].t, blob |-> i])
     IN /\ files' = saved.fs
        /\ EndCall([c EXCEPT !.writes = saved.wrote], Return(saved.ret))
  /\ UNCHANGED <<self, archive, cores, held>>

\* a caller's own call of make_criteria
MakeCriteriaCall(column, value) ==
  /\ pc = "idle"
  /\ EndCall(NewCall("make_criteria", [column |-> column, value |-> value]),
             make_criteria(column, value))
  /\ UNCHANGED <<self, archive, files, cores, held>>

\* a caller's own call of get_criteria
GetCriteriaCall(id, t) ==
  /\ pc = "idle"
  /\ EndCall(NewCall("get_criteria", [id |-> id, t |-> t]), get_criteria(id, t))
  /\ UNCHANGED <<self, archive, files, cores, held>>

(***************************************************************************)
(* The cursor loop of get_frame, lines 106-108: one row, one save_frame.   *)
(***************************************************************************)
SaveFrameStep ==
  /\ pc = "get_frame"
  /\ cursor # <<>>
  /\ LET row == archive[Head(cursor)]
         saved == save_frame(files, row.id, row.t, Head(cursor))
     IN /\ files' = saved.fs
        /\ call' = [call EXCEPT !.writes = @ \o saved.wrote]
        /\ filenames' = List(Append(filenames.list, saved.ret))
  /\ cursor' = Tail(cursor)
  /\ UNCHANGED <<self, archive, pc, tasks, cores, held, hist>>

(***************************************************************************)
(* Annotator.annotate, lines 175-178: nothing for None, else the pool.     *)
(***************************************************************************)
AnnotateEnter(c, fnames, n) ==
  IF fnames.none
  THEN EndCall(c, Return(NoneList)) /\ UNCHANGED cores
  ELSE IF \E i \in 1..Len(fnames.list) : ParsedT(fnames.list[i]).exc # ""
  THEN EndCall(c, Raise("ValueError")) /\ UNCHANGED cores
  ELSE /\ call' = [c EXCEPT !.before = files]
       /\ pc' = "pool"
       /\ filenames' = fnames
       /\ tasks' = make_pool(fnames.list)
       /\ cores' = n
       /\ UNCHANGED <<cursor, hist>>

\* a caller's own call of annotate, on the list its last get_frame gave
AnnotateCall(n) ==
  /\ pc = "idle"
  /\ AnnotateEnter(NewCall("annotate", [filenames |-> held, cores |-> n]), held, n)
  /\ UNCHANGED <<self, archive, files, held>>

\* a variant whose test of line 236 looks at the request's flag only
GetFrameReturnFlagOnly ==
  /\ pc = "get_frame"
  /\ cursor = <<>>
  /\ IF call.op = "get_frame"
     THEN /\ EndCall(call, [exc |-> "", val |-> filenames])
          /\ held' = filenames
          /\ UNCHANGED cores
     ELSE IF call.arg.annotate /\ ~filenames.none /\ filenames.list # <<>>
     THEN AnnotateEnter(call, filenames, 4) /\ UNCHANGED held
     ELSE /\ pc' = "finish"
          /\ UNCHANGED <<call, cursor, filenames, tasks, cores, held, hist>>
  /\ UNCHANGED <<self, archive, files>>

(***************************************************************************)
(* The return of get_frame, and in run the test of line 236.               *)
(***************************************************************************)
GetFrameReturn ==
  /\ pc = "get_frame"
  /\ cursor = <<>>
  /\ IF call.op = "get_frame"
     THEN /\ EndCall(call, Return(filenames))
          /\ held' = filenames
          /\ UNCHANGED cores
     ELSE IF (call.arg.annotate \/ ANNOTATE) /\ Truthy(filenames)
     THEN AnnotateEnter(call, filenames, DefaultCores) /\ UNCHANGED held
     ELSE /\ pc' = "finish"
          /\ UNCHANGED <<call, cursor, filenames, tasks, cores, held, hist>>
  /\ UNCHANGED <<self, archive, files>>

(***************************************************************************)
(* pool.map(self.annotate_image, pool_args): the entries are handed out in *)
(* order, at most `cores` of them are in progress at a time, and each runs *)
(* annotate_image in a worker of its own.  One entry goes through          *)
(*   queued -> (label, out, os.path.exists(out)) -> skipped                *)
(*   queued -> convert -> (os.system) -> remove -> (os.remove) -> done     *)
(*                                                    or, no file, raised  *)
(***************************************************************************)
InProgress == {i \in 1..Len(tasks) : tasks[i].st \in {"convert", "remove"}}

Finished(i) == tasks[i].st \in {"skipped", "done", "raised"}

\* lines 156-161: the label, the output path, the test for the labeled file
Check(i) ==
  /\ pc = "pool"
  /\ tasks[i].st = "queued"
  /\ \A j \in 1..(i - 1) : tasks[j].st # "queued"
  /\ Cardinality(InProgress) < cores
  /\ LET out == Out(tasks[i].f)
     IN tasks' = [tasks EXCEPT ![i].label = Label(tasks[i].t),
                               ![i].out = out,
                               ![i].st = IF Exists(files, out) THEN "skipped" ELSE "convert"]
  /\ UNCHANGED <<self, archive, files, pc, call, cursor, filenames, cores, held, hist>>

\* The labeling tool: with its input and its output directory there it
\* writes the labeled file or fails (toolok); without them it fails.
ToolWrites(fs, filename, out, toolok) ==
  toolok /\ Exists(fs, filename) /\ DirExists(Dirname(out))

\* lines 163-164: os.system(command); the exit status is dropped
Convert(i, toolok) ==
  /\ pc = "pool"
  /\ tasks[i].st = "convert"
  /\ LET f == tasks[i].f
         wrote == ToolWrites(files, f, tasks[i].out, toolok)
     IN /\ files' = IF wrote
                    THEN Put(files, tasks[i].out, LabeledContent(files[f].blob, tasks[i].label))
                    ELSE files
        /\ tasks' = [tasks EXCEPT ![i].st = "remove", ![i].ok = wrote]
        /\ call' = [call EXCEPT !.tool = @ \cup
                      {[i |-> i, f |-> f, label |-> tasks[i].label, out |-> tasks[i].out, ok |-> wrote]}]
  /\ UNCHANGED <<self, archive, pc, cursor, filenames, cores, held, hist>>

\* a variant that removes every raw file of the directory
RemoveEveryRaw(fs, task) ==
  [q \in {p \in DOMAIN fs : fs[p].kind # "raw" \/ Dirname(p) # Dirname(task.f)} |-> fs[q]]

\* a variant that leaves the raw file where it is
KeepRaw(fs, task) == fs

\* line 165: os.remove(filename), whatever the tool did
RemoveRaw(fs, task) == Del(fs, task.f)

\* a variant that checks the tool's exit status and raises on a failure
RemoveChecked(i) ==
  /\ pc = "pool"
  /\ tasks[i].st = "remove"
  /\ IF tasks[i].ok /\ Exists(files, tasks[i].f)
     THEN /\ files' = Del(files, tasks[i].f)
          /\ tasks' = [tasks EXCEPT ![i].st = "done"]
     ELSE /\ tasks' = [tasks EXCEPT ![i].st = "raised"]
          /\ UNCHANGED files
  /\ UNCHANGED <<self, archive, pc, call, cursor, filenames, cores, held, hist>>

Remove(i) ==
  /\ pc = "pool"
  /\ tasks[i].st = "remove"
  /\ IF Exists(files, tasks[i].f)
     THEN /\ files' = RemoveRaw(files, tasks[i])
          /\ tasks' = [tasks EXCEPT ![i].st = "done"]
     ELSE /\ tasks' = [tasks EXCEPT ![i].st = "raised"]
          /\ UNCHANGED files
  /\ UNCHANGED <<self, archive, pc, call, cursor, filenames, cores, held, hist>>

\* a variant that hands the entries to the pool and does not wait for them
PoolReturnNoWait ==
  /\ pc = "pool"
  /\ IF \E i \in 1..Len(tasks) : tasks[i].st = "raised"
     THEN EndCall(call, [exc |-> "FileNotFoundError", val |-> ""])
     ELSE IF call.op = "annotate"
     THEN EndCall(call, [exc |-> "", val |-> [none |-> FALSE, list |-> Renamed(filenames.list)]])
     ELSE /\ pc' = "finish"
          /\ filenames' = [none |-> FALSE, list |-> Renamed(filenames.list)]
          /\ tasks' = <<>>
          /\ UNCHANGED <<call, cursor, hist>>
  /\ UNCHANGED <<self, archive, files, cores, held>>

\* pool.map returns when every entry is finished, and raises if one raised;
\* then lines 183-184
PoolReturn ==
  /\ pc = "pool"
  /\ \A i \in 1..Len(tasks) : Finished(i)
  /\ IF \E i \in 1..Len(tasks) : tasks[i].st = "raised"
     THEN EndCall(call, Raise("FileNotFoundError"))
     ELSE IF call.op = "annotate"
     THEN EndCall(call, Return(List(Renamed(filenames.list))))
     ELSE /\ pc' = "finish"
          /\ filenames' = List(Renamed(filenames.list))
          /\ tasks' = <<>>
          /\ UNCHANGED <<call, cursor, hist>>
  /\ UNCHANGED <<self, archive, files, cores, held>>

(***************************************************************************)
(* EthoscopeImager.run, lines 239-245, with VideoMaker.make_video: the     *)
(* encoder writes the video or fails (encoded), and fails with no *.jpg.   *)
(***************************************************************************)
RunFinish(encoded, listing) ==
  /\ IF call.arg.video = TRUE
     THEN /\ files' = IF encoded /\ Snapshots(files) # {}
                      THEN Put(files, VideoOutput, VideoContent)
                      ELSE files
          /\ EndCall(call, Return(List(<<VideoOutput>>)))
     ELSE /\ UNCHANGED files
          /\ EndCall(call, Return(IF filenames.none THEN List(listing) ELSE filenames))
  /\ UNCHANGED <<self, archive, cores, held>>

(***************************************************************************)
(* ImageExtractor.clean: the snapshot directory is removed and made again. *)
(***************************************************************************)
Clean ==
  /\ pc = "idle"
  /\ files' = [p \in {q \in DOMAIN files : ~StartsWith(q, self.img_snapshots \o "/")} |-> files[p]]
  /\ EndCall(NewCall("clean", PyNone), Return(NoneList))
  /\ UNCHANGED <<self, archive, cores, held>>

(***************************************************************************)
(* The steps inside a call, whoever made it.                               *)
(***************************************************************************)
Step ==
  \/ SaveFrameStep
  \/ GetFrameReturn
  \/ /\ pc = "pool"
     /\ \E i \in 1..Len(tasks) : Check(i)
  \/ /\ pc = "pool"
     /\ \E i \in 1..Len(tasks), toolok \in BOOLEAN : Convert(i, toolok)
  \/ /\ pc = "pool"
     /\ \E i \in 1..Len(tasks) : Remove(i)
  \/ PoolReturn

(***************************************************************************)
(* The program as main drives it: calls of run, and clean.                 *)
(***************************************************************************)
Next ==
  \/ /\ pc = "idle"
     /\ Len(hist) < MaxCalls
     /\ \E r \in Requests : RunCall(r)
  \/ /\ pc = "idle"
     /\ Len(hist) < MaxCalls
     /\ Clean
  \/ /\ pc = "finish"
     /\ \E encoded \in BOOLEAN, listing \in Orderings(Snapshots(files)) : RunFinish(encoded, listing)
  \/ Step

Spec == Init /\ [][Next]_vars

(***************************************************************************)
(* The program on an archive in which two rows have the same (id, t): the  *)
(* query then gives the same frame twice and get_frame the same raw path   *)
(* twice.                                                                  *)
(***************************************************************************)
ArchivesDup ==
  {a \in SeqsUpTo([id : Ids, t : Ts], MaxRows) :
     /\ \A i, j \in 1..Len(a) : i < j => (a[i] = a[j] \/ Before(a[i], a[j]))
     /\ \E i, j \in 1..Len(a) : i < j /\ a[i] = a[j]}

InitDup ==
  /\ self \in {NewImager(p, t0) : p \in ArchivePaths, t0 \in T0s}
  /\ archive \in ArchivesDup
  /\ files = <<>>
  /\ pc = "idle"
  /\ call = NewCall("none", PyNone)
  /\ cursor = <<>>
  /\ filenames = NoneList
  /\ tasks = <<>>
  /\ cores = DefaultCores
  /\ held = NoneList
  /\ hist = <<>>

SpecDup == InitDup /\ [][Next]_vars

(***************************************************************************)
(* The program on an archive kept in a folder whose name holds the text    *)
(* '_raw', and beside it one whose name does not.                          *)
(***************************************************************************)
MarkedPaths == {"/e_raw/db", "/e/db"}

InitPaths ==
  /\ self \in {NewImager(p, t0) : p \in MarkedPaths, t0 \in T0s}
  /\ archive \in Archives
  /\ files = <<>>
  /\ pc = "idle"
  /\ call = NewCall("none", PyNone)
  /\ cursor = <<>>
  /\ filenames = NoneList
  /\ tasks = <<>>
  /\ cores = DefaultCores
  /\ held = NoneList
  /\ hist = <<>>

SpecPaths == InitPaths /\ [][Next]_vars

(***************************************************************************)
(* The stages called one by one: get_frame, save_frame, annotate with a    *)
(* pool size of the caller's choice, and clean.                            *)
(***************************************************************************)
NextStages ==
  \/ /\ pc = "idle"
     /\ Len(hist) < MaxStageCalls
     /\ \E criteria \in DirectCriteria : GetFrameCall(criteria)
  \/ /\ pc = "idle"
     /\ Len(hist) < MaxStageCalls
     /\ \E i \in 1..Len(archive) : SaveFrameCall(i)
  \/ /\ pc = "idle"
     /\ Len(hist) < MaxStageCalls
     /\ \E n \in PoolSizes : AnnotateCall(n)
  \/ /\ pc = "idle"
     /\ Len(hist) < MaxStageCalls
     /\ Clean
  \/ Step

SpecStages == Init /\ [][NextStages]_vars

(***************************************************************************)
(* The criteria builders called on their own, once, on any value.          *)
(***************************************************************************)
InitCriteria == Init /\ archive = <<>>

NextCriteria ==
  \/ /\ hist = <<>>
     /\ \E column \in ColumnNames, value \in FilterValues : MakeCriteriaCall(column, value)
  \/ /\ hist = <<>>
     /\ \E id \in FilterValues, t \in FilterValues : GetCriteriaCall(id, t)

SpecCriteria == InitCriteria /\ [][NextCriteria]_vars

(***************************************************************************)
(* The claims.                                                             *)
(***************************************************************************)
Last(s) == s[Len(s)]

\* the last call was run and has returned or raised
RunEnded == pc = "idle" /\ hist # <<>> /\ Last(hist).call.op = "run"

ToolSucceeded(h, f) == \E inv \in h.call.tool : inv.f = f /\ inv.ok

\* C1: when the labeling tool fails on a frame whose labeled file did not
\* exist (so annotate_image went past its skip test), then once
\* annotate_image has ended for that frame the raw file is still on disk and
\* the labeled file is not.
C1_RawKeptWhenToolFails ==
  pc = "pool" =>
    \A i \in 1..Len(tasks) :
      (tasks[i].st \in {"done", "raised"} /\ ~tasks[i].ok) =>
        (Exists(files, tasks[i].f) /\ ~Exists(files, tasks[i].out))

\* C2: if the tool failed on a frame in an earlier run of a request and
\* succeeds on it when the same request is run again, then right after that
\* later run the labeled file of the frame exists, its raw file does not,
\* and the later run has returned without raising.
C2_Resumable ==
  RunEnded =>
    \A k \in 1..(Len(hist) - 1) :
      (hist[k].call.op = "run" /\ hist[k].call.arg = Last(hist).call.arg) =>
        \A inv \in hist[k].call.tool :
          (~inv.ok /\ ToolSucceeded(Last(hist), inv.f)) =>
            /\ Exists(files, inv.out)
            /\ files[inv.out].kind = "labeled"
            /\ ~Exists(files, inv.f)
            /\ Last(hist).ret.exc = ""

C2_Witness ==
  /\ RunEnded
  /\ \E k \in 1..(Len(hist) - 1) :
       /\ hist[k].call.op = "run"
       /\ hist[k].call.arg = Last(hist).call.arg
       /\ \E inv \in hist[k].call.tool :
            /\ ~inv.ok
            /\ ToolSucceeded(Last(hist), inv.f)
            /\ Exists(files, inv.out)
            /\ ~Exists(files, inv.f)

\* the frame (id, t) is on disk, raw or labeled
Materialized(id, t) == Exists(files, file_name(id, t)) \/ Exists(files, file_name_raw(id, t))

\* this step is a caller's whole call of save_frame
SaveFrameCalled ==
  /\ pc = "idle"
  /\ pc' = "idle"
  /\ Len(hist') = Len(hist) + 1
  /\ Last(hist').call.op = "save_frame"

\* C3: a save_frame for a frame whose raw file or labeled file exists
\* creates, rewrites and deletes no file and returns the raw path; and a
\* second save_frame for the same record returns the path the first
\* returned and writes nothing.
C3_SaveFrameIdempotent ==
  [][/\ (pc = "get_frame" /\ cursor # <<>>
           /\ Materialized(archive[Head(cursor)].id, archive[Head(cursor)].t))
        => /\ files' = files
           /\ call'.writes = call.writes
           /\ Last(filenames'.list)
                = file_name_raw(archive[Head(cursor)].id, archive[Head(cursor)].t)
     /\ (SaveFrameCalled /\ Materialized(Last(hist').call.arg.id, Last(hist').call.arg.t))
        => /\ files' = files
           /\ Last(hist').call.writes = <<>>
           /\ Last(hist').ret
                = Return(file_name_raw(Last(hist').call.arg.id, Last(hist').call.arg.t))
     /\ (SaveFrameCalled /\ hist # <<>> /\ Last(hist).call.op = "save_frame"
           /\ Last(hist).call.arg = Last(hist').call.arg)
        => /\ Last(hist').ret = Last(hist).ret
           /\ Last(hist').call.writes = <<>>
           /\ files' = files]_vars

C3_Witness ==
  /\ pc = "idle"
  /\ Len(hist) >= 2
  /\ Last(hist).call.op = "save_frame"
  /\ hist[Len(hist) - 1].call.op = "save_frame"
  /\ hist[Len(hist) - 1].call.arg = Last(hist).call.arg
  /\ hist[Len(hist) - 1].call.writes # <<>>
  /\ Last(hist).call.writes = <<>>
  /\ Last(hist).ret = hist[Len(hist) - 1].ret
  /\ Exists(files, Last(hist).ret.val)

\* the last two calls were annotate, on the same list of raw paths
TwoAnnotates ==
  /\ pc = "idle"
  /\ Len(hist) >= 2
  /\ Last(hist).call.op = "annotate"
  /\ hist[Len(hist) - 1].call.op = "annotate"
  /\ ~Last(hist).call.arg.filenames.none
  /\ hist[Len(hist) - 1].call.arg.filenames = Last(hist).call.arg.filenames

Invocations(h, f) == {inv \in h.call.tool : inv.f = f}

\* C4 as stated: over two consecutive annotate calls on the same list the
\* tool is invoked at most once per frame, a frame labeled by the first call
\* is skipped by the second with no invocation and no deletion, and the
\* second call returns normally.
C4_AtMostOnceAndReturns ==
  TwoAnnotates =>
    LET first == hist[Len(hist) - 1]
        second == Last(hist)
        paths == Range(second.call.arg.filenames.list)
    IN /\ \A f \in paths :
            Cardinality(Invocations(first, f)) + Cardinality(Invocations(second, f)) <= 1
       /\ \A inv \in first.call.tool :
            inv.ok => (Invocations(second, inv.f) = {} /\ Exists(files, inv.out))
       /\ second.ret.exc = ""

\* C5: a raw file and the labeled file of the same frame are on disk
\* together only inside that frame's annotate_image, between the tool having
\* written the labeled file and os.remove; so in every state where no
\* annotate call is in progress at most one of the two exists.
C5_RawOrLabeled ==
  \A p, q \in DOMAIN files :
    (files[p].kind = "raw" /\ files[q].kind = "labeled" /\ q = Out(p)) =>
      /\ pc = "pool"
      /\ \E i \in 1..Len(tasks) :
           tasks[i].f = p /\ tasks[i].st = "remove" /\ tasks[i].ok

C5_Witness ==
  /\ RunEnded
  /\ Last(hist).ret.exc = ""
  /\ \E inv \in Last(hist).call.tool :
       inv.ok /\ Exists(files, inv.out) /\ ~Exists(files, inv.f)

\* C6: when run is given an id filter and a t filter, the predicate sent to
\* the archive is '<id predicate> <flag> <t predicate>', flag being the
\* connective the caller passed and the sub-predicates the ones
\* make_criteria built for id and t.
C6_BothFiltersCombined ==
  \A k \in 1..Len(hist) :
    (hist[k].call.op = "run" /\ ~IsNone(hist[k].call.arg.id) /\ ~IsNone(hist[k].call.arg.t)) =>
      LET a == hist[k].call.arg
          id_criteria == make_criteria(S_ID, a.id)
          t_criteria == make_criteria(S_T, a.t)
      IN (id_criteria.exc = "" /\ t_criteria.exc = "") =>
           hist[k].call.queries
             = <<Statement(id_criteria.val \o " " \o a.flag \o " " \o t_criteria.val)>>

\* C7: for every column and every single integer, make_criteria returns
\* '<column> = <value>' and does not fail.
C7_IntegerGivesEquality ==
  \A k \in 1..Len(hist) :
    (hist[k].call.op = "make_criteria" /\ hist[k].call.arg.value.type = "int") =>
      hist[k].ret = Return(hist[k].call.arg.column \o " = " \o IntStr(hist[k].call.arg.value.val))

\* a single integer, or a list of integers that is not empty
IntegerList(v) ==
  /\ v.type = "list"
  /\ v.val # <<>>
  /\ \A i \in 1..Len(v.val) : v.val[i].type = "int"

ValidFilter(v) == v.type = "int" \/ IntegerList(v)

\* C8: on a value that is neither an integer nor a non-empty list of
\* integers make_criteria fails with the invalid-filter error (the Exception
\* of line 88), and a run given such a filter ends with that error, having
\* sent no query and written no frame.
C8_InvalidFilterRejected ==
  /\ \A k \in 1..Len(hist) :
       (hist[k].call.op = "make_criteria" /\ ~ValidFilter(hist[k].call.arg.value)) =>
         hist[k].ret = Raise("Exception")
  /\ \A k \in 1..Len(hist) :
       (/\ hist[k].call.op = "run"
        /\ \/ ~IsNone(hist[k].call.arg.id) /\ ~ValidFilter(hist[k].call.arg.id)
           \/ ~IsNone(hist[k].call.arg.t) /\ ~ValidFilter(hist[k].call.arg.t)) =>
         /\ hist[k].ret = Raise("Exception")
         /\ hist[k].call.queries = <<>>
         /\ hist[k].call.writes = <<>>

\* the values between the parentheses of a membership predicate, read back
ListedValues(column, text) ==
  LET inner == SubSeq(text, Len(column) + 6, Len(text) - 1)
      pieces == Split(inner, ",")
  IN [i \in 1..Len(pieces) |-> IF IsIntText(pieces[i]) THEN PyInt(IntVal(pieces[i])) ELSE PyStr(pieces[i])]

\* C9: for every non-empty list of integers make_criteria returns
\* '<column> in (v1,...,vn)', and the values between the parentheses, split
\* at the commas and read as integers, are the input list: same length,
\* same order, one per occurrence.
C9_MembershipListsInput ==
  \A k \in 1..Len(hist) :
    (hist[k].call.op = "make_criteria" /\ IntegerList(hist[k].call.arg.value)) =>
      /\ hist[k].ret.exc = ""
      /\ StartsWith(hist[k].ret.val, hist[k].call.arg.column \o " in (")
      /\ EndsWith(hist[k].ret.val, ")")
      /\ ListedValues(hist[k].call.arg.column, hist[k].ret.val) = hist[k].call.arg.value.val

C9_Witness ==
  \E k \in 1..Len(hist) :
    /\ hist[k].call.op = "make_criteria"
    /\ IntegerList(hist[k].call.arg.value)
    /\ Len(hist[k].call.arg.value.val) = 2
    /\ hist[k].call.arg.value.val[1] = hist[k].call.arg.value.val[2]
    /\ hist[k].ret.exc = ""
    /\ Len(ListedValues(hist[k].call.arg.column, hist[k].ret.val)) = 2

\* a run with no id filter, no t filter and video off
Listing(c) == c.op = "run" /\ NoFilter(c.arg) /\ c.arg.video = FALSE

\* C10: a run with no filter and video off gets None from get_criteria and
\* None, not the empty list, from get_frame, sends no query, annotates
\* nothing, and returns the list of the *.jpg files in the snapshot
\* directory, each once: the empty list when there is none.
C10_NoFilterLists ==
  /\ (pc # "idle" /\ Listing(call)) =>
       /\ get_criteria(call.arg.id, call.arg.t) = Return(PyNone)
       /\ pc \in {"get_frame", "finish"}
       /\ filenames = NoneList
       /\ cursor = <<>>
       /\ call.queries = <<>>
       /\ call.writes = <<>>
       /\ call.tool = {}
  /\ (pc = "idle" /\ hist # <<>> /\ Listing(Last(hist).call)) =>
       /\ Last(hist).call.queries = <<>>
       /\ Last(hist).ret.exc = ""
       /\ ~Last(hist).ret.val.none
       /\ Range(Last(hist).ret.val.list) = Snapshots(files)
       /\ Len(Last(hist).ret.val.list) = Cardinality(Snapshots(files))

C10_Witness ==
  /\ pc = "idle"
  /\ hist # <<>>
  /\ Listing(Last(hist).call)
  /\ Last(hist).ret.exc = ""
  /\ Last(hist).ret.val.list # <<>>
  /\ Range(Last(hist).ret.val.list) = Snapshots(files)

\* the filter is absent or one the builder is documented to take
GivenFilter(v) == IsNone(v) \/ ValidFilter(v)

\* C11: whenever video is requested, run returns the list of one element
\* '<snapshot dir>/<archive base name>.mp4', for every combination of
\* filters and annotate flag, extraction having returned None or an empty
\* list included.
C11_VideoRequestReturnsVideoPath ==
  \A k \in 1..Len(hist) :
    (/\ hist[k].call.op = "run"
     /\ hist[k].call.arg.video = TRUE
     /\ GivenFilter(hist[k].call.arg.id)
     /\ GivenFilter(hist[k].call.arg.t)) =>
      /\ hist[k].ret.exc = ""
      /\ hist[k].ret.val = List(<<self.img_snapshots \o "/" \o self.filename \o ".mp4">>)

\* the frames that save_frame has written and that are still raw files
RawFrames == {p \in DOMAIN files : files[p].kind = "raw"}

\* C12: sorting the file names of frames materialized by save_frame
\* lexicographically puts them in chronological order: a name that sorts
\* before another carries a t that is not later.
C12_NameOrderIsTimeOrder ==
  \A p, q \in RawFrames :
    LexLess(Basename(p), Basename(q)) => ParsedT(p).val <= ParsedT(q).val

\* the request {id: [3], annotate: true, video: false} on the archive with
\* t0 = 1700000000 and the single record (id = 3, t = 2000)
EndToEnd(h) ==
  /\ self.t0 = 1700000000
  /\ archive = <<[id |-> 3, t |-> 2000]>>
  /\ h.call.op = "run"
  /\ h.call.arg.id = PyList(<<PyInt(3)>>)
  /\ IsNone(h.call.arg.t)
  /\ h.call.arg.annotate
  /\ ~h.call.arg.video

\* C13 as stated: that request returns exactly one path, named
\* 00003_2000.jpg, the raw file 00003_2000_raw.jpg no longer exists, and the
\* label handed to the tool is the date-time of epoch second 1700002000.
C13_EndToEndLabel1700002000 ==
  (pc = "idle" /\ hist # <<>> /\ EndToEnd(Last(hist))) =>
    /\ Last(hist).ret.exc = ""
    /\ Len(Last(hist).ret.val.list) = 1
    /\ Basename(Last(hist).ret.val.list[1]) = "00003_2000.jpg"
    /\ ~Exists(files, self.img_snapshots \o "/00003_2000_raw.jpg")
    /\ \A inv \in Last(hist).call.tool : inv.label = 1700002000

\* C13 amended: that request returns exactly one path, named 00003_2000.jpg
\* in the snapshot directory, the raw file 00003_2000_raw.jpg no longer
\* exists, and the label handed to the tool is the date-time of epoch
\* second 1700000002 (t0 plus 2000 ms).
C13_EndToEndLabel1700000002 ==
  (pc = "idle" /\ hist # <<>> /\ EndToEnd(Last(hist))) =>
    /\ Last(hist).ret.exc = ""
    /\ Last(hist).ret.val = List(<<self.img_snapshots \o "/00003_2000.jpg">>)
    /\ ~Exists(files, self.img_snapshots \o "/00003_2000_raw.jpg")
    /\ \A inv \in Last(hist).call.tool :
         /\ inv.label = 1700000002
         /\ inv.f = self.img_snapshots \o "/00003_2000_raw.jpg"
         /\ inv.out = self.img_snapshots \o "/00003_2000.jpg"

C13_Witness ==
  /\ pc = "idle"
  /\ hist # <<>>
  /\ EndToEnd(Last(hist))
  /\ Last(hist).ret.exc = ""
  /\ \E inv \in Last(hist).call.tool : inv.ok /\ inv.label = 1700000002
  /\ Exists(files, self.img_snapshots \o "/00003_2000.jpg")
  /\ files[self.img_snapshots \o "/00003_2000.jpg"].label = 1700000002

\* the archive rows whose raw file has the path f
RowsOf(f) == {i \in 1..Len(archive) : file_name_raw(archive[i].id, archive[i].t) = f}

\* the second s shows the time t / 1000 + t0: s - t0 <= t / 1000 < s - t0 + 1
ShowsTime(s, t) ==
  /\ (s - self.t0) * 1000 <= t
  /\ t < (s - self.t0 + 1) * 1000

\* C14: the t that make_pool parses from the name save_frame gave the frame
\* (id, t) is that t, and the time labeled on a frame is t / 1000 + t0
\* seconds since the epoch, shown to the second.
C14_LabelTime ==
  /\ pc = "idle" =>
       \A k \in 1..Len(hist) :
         (hist[k].call.op = "save_frame" /\ hist[k].ret.exc = "") =>
           ParsedT(hist[k].ret.val) = Return(hist[k].call.arg.t)
  /\ \A i \in 1..Len(tasks) :
       /\ tasks[i].st = "queued" => \A r \in RowsOf(tasks[i].f) : tasks[i].t = archive[r].t
       /\ tasks[i].st # "queued" => ShowsTime(tasks[i].label, tasks[i].t)
  /\ pc = "idle" =>
       \A k \in 1..Len(hist) : \A inv \in hist[k].call.tool : \A r \in RowsOf(inv.f) :
         ShowsTime(inv.label, archive[r].t)

C14_Witness ==
  /\ pc = "idle"
  /\ Len(hist) >= 3
  /\ hist[1].call.op = "save_frame"
  /\ hist[1].call.arg.t = 500
  /\ ParsedT(hist[1].ret.val) = Return(500)
  /\ \E inv \in Last(hist).call.tool :
       /\ inv.f = hist[1].ret.val
       /\ inv.label = self.t0

\* the labeled path save_frame knows for the frame whose raw path is f
LabeledOf(f) ==
  LET r == CHOOSE r \in RowsOf(f) : TRUE
  IN file_name(archive[r].id, archive[r].t)

\* the paths of a batch are raw paths of pairwise distinct frames
DistinctFrames(batch) ==
  /\ \A i \in 1..Len(batch) : RowsOf(batch[i]) # {}
  /\ \A i, j \in 1..Len(batch) : i # j => batch[i] # batch[j]

\* the same file with the same content, or no file, on both disks
SameAt(fs, gs, p) == (Exists(fs, p) <=> Exists(gs, p)) /\ (Exists(fs, p) => fs[p] = gs[p])

\* The disk annotate leaves is the one this says, from the disk it found,
\* the batch and the tool's result on each frame: a frame with a labeled
\* file is left as it was; any other frame has no raw file and has the
\* labeled file, made from its raw file, exactly if the tool wrote it; every
\* other file is as it was.
AnnotateResult(h) ==
  LET batch == h.call.arg.filenames.list
      own == {batch[i] : i \in 1..Len(batch)} \cup {LabeledOf(batch[i]) : i \in 1..Len(batch)}
  IN /\ \A p \in ((DOMAIN files) \cup (DOMAIN h.call.before)) \ own : SameAt(files, h.call.before, p)
     /\ \A i \in 1..Len(batch) :
          LET f == batch[i]
              out == LabeledOf(f)
          IN IF Exists(h.call.before, out)
             THEN /\ SameAt(files, h.call.before, f)
                  /\ SameAt(files, h.call.before, out)
                  /\ Invocations(h, f) = {}
             ELSE /\ ~Exists(files, f)
                  /\ Cardinality(Invocations(h, f)) = 1
                  /\ Exists(files, out) <=> ToolSucceeded(h, f)
                  /\ Exists(files, out) =>
                       /\ Exists(h.call.before, f)
                       /\ files[out].kind = "labeled"
                       /\ files[out].blob = h.call.before[f].blob
     /\ (\A i \in 1..Len(batch) :
           Exists(h.call.before, batch[i]) \/ Exists(h.call.before, LabeledOf(batch[i])))
        => h.ret.exc = ""

\* a step of the pool changes only the raw file and the labeled file of the
\* frame of the one worker that takes the step
OwnFilesOnly ==
  (pc = "pool" /\ files' # files) =>
    \E i \in 1..Len(tasks) :
      /\ tasks'[i] # tasks[i]
      /\ \A j \in 1..Len(tasks) : j # i => tasks'[j] = tasks[j]
      /\ \A p \in ((DOMAIN files) \cup (DOMAIN files')) \ {tasks[i].f, LabeledOf(tasks[i].f)} :
           SameAt(files', files, p)

\* C15: on a batch of raw paths of pairwise distinct frames each worker
\* changes only the raw and the labeled file of its own frame, and the
\* directory after annotate has returned is the same whatever the
\* interleaving of the workers and whatever the size of the pool.
C15_WorkersIndependent ==
  /\ []((pc = "idle" /\ hist # <<>> /\ Last(hist).call.op = "annotate"
           /\ ~Last(hist).call.arg.filenames.none
           /\ DistinctFrames(Last(hist).call.arg.filenames.list))
          => AnnotateResult(Last(hist)))
  /\ [][(pc = "pool" /\ files' # files /\ DistinctFrames(filenames.list)) => OwnFilesOnly]_vars

\* two frames were in progress together in a pool of 4, and both labeled
C15_Witness ==
  /\ pc = "idle"
  /\ hist # <<>>
  /\ Last(hist).call.op = "annotate"
  /\ Last(hist).call.arg.cores = 4
  /\ Len(Last(hist).call.arg.filenames.list) = 2
  /\ DistinctFrames(Last(hist).call.arg.filenames.list)
  /\ Cardinality({inv \in Last(hist).call.tool : inv.ok}) = 2
  /\ AnnotateResult(Last(hist))

\* the tool failed on a frame of the call's batch and wrote another
OneFailedOneLabeled(c) ==
  /\ \E inv \in c.tool : ~inv.ok
  /\ \E inv \in c.tool : inv.ok

\* C16: a failure of the labeling tool on one frame is not fatal and
\* touches no other frame: the annotate stage of the run still returns
\* without raising, and every other frame of the batch on which the tool
\* succeeded has its labeled file, and its raw file is gone.
C16_ToolFailureIsolated ==
  /\ (pc = "finish" /\ \E inv \in call.tool : ~inv.ok) =>
       /\ ~filenames.none
       /\ \A inv \in call.tool : \E i \in 1..Len(filenames.list) : filenames.list[i] = inv.out
       /\ \A inv \in call.tool :
            inv.ok => (Exists(files, inv.out) /\ files[inv.out].kind = "labeled"
                        /\ ~Exists(files, inv.f))
  /\ \A k \in 1..Len(hist) :
       (hist[k].call.op = "run" /\ \E inv \in hist[k].call.tool : ~inv.ok) =>
         hist[k].ret.exc = ""

C16_Witness ==
  /\ RunEnded
  /\ OneFailedOneLabeled(Last(hist).call)
  /\ Last(hist).ret.exc = ""
  /\ \A inv \in Last(hist).call.tool :
       inv.ok => (Exists(files, inv.out) /\ ~Exists(files, inv.f))

\* run is at line 236: get_frame has returned to it
AtAnnotateTest == pc = "get_frame" /\ cursor = <<>> /\ call.op = "run"

\* C17: run enters the annotation stage exactly when (the request's annotate
\* flag or ANNOTATE) holds and get_frame returned a list that is not empty;
\* when get_frame returned None or the empty list the tool is not invoked,
\* no file is created or deleted, and the result goes on unchanged.
C17_AnnotationGate ==
  /\ [][AtAnnotateTest =>
          /\ (pc' = "pool") <=>
               ((call.arg.annotate \/ ANNOTATE) /\ ~filenames.none /\ filenames.list # <<>>)
          /\ (filenames.none \/ filenames.list = <<>>) =>
               /\ pc' = "finish"
               /\ filenames' = filenames
               /\ files' = files
               /\ call' = call]_vars
  /\ [](\A k \in 1..Len(hist) :
          (/\ hist[k].call.op = "run"
           /\ hist[k].ret.exc = ""
           /\ ~hist[k].call.arg.video
           /\ hist[k].call.queries # <<>>
           /\ hist[k].call.writes = <<>>
           /\ hist[k].ret.val.list = <<>>) => hist[k].call.tool = {})
  /\ []((pc = "pool" /\ call.op = "run") => filenames.list # <<>>)

\* a run whose filter matched no record went past the annotation stage
C17_Witness ==
  /\ pc = "finish"
  /\ call.op = "run"
  /\ call.queries # <<>>
  /\ filenames = List(<<>>)
  /\ call.tool = {}
  /\ ~call.arg.annotate

\* entry i of the pool has been attempted: skipped, or the tool was run on
\* it and os.remove has been called
Attempted(i) ==
  \/ tasks[i].st = "skipped"
  \/ /\ tasks[i].st \in {"done", "raised"}
     /\ \E inv \in call.tool : inv.i = i

\* C18: within a run the pool is left, the encoder started and the run
\* ended only after every frame handed to the pool has been attempted; no
\* annotate_image is pending or in progress then.
C18_PoolDoneBeforeVideo ==
  [][/\ (pc = "pool" /\ pc' # "pool") =>
          /\ Len(tasks) = Len(filenames.list)
          /\ \A i \in 1..Len(tasks) : Attempted(i)
     /\ (call.op = "run" /\ (Len(hist') > Len(hist) \/ pc' = "finish")) =>
          /\ InProgress = {}
          /\ \A i \in 1..Len(tasks) : Attempted(i)
     /\ (~Exists(files, VideoOutput) /\ Exists(files', VideoOutput)) =>
          (pc = "finish" /\ call.op = "run" /\ call.arg.video /\ tasks = <<>>)]_vars

\* a run made the video after its pool had labeled a frame
C18_Witness ==
  /\ RunEnded
  /\ Last(hist).call.arg.video
  /\ Last(hist).ret.exc = ""
  /\ \E inv \in Last(hist).call.tool : inv.ok /\ Exists(files, inv.out)
  /\ Exists(files, VideoOutput)

\* C19: for any batch, one with the same raw path twice included, every
\* interleaving of the workers ends with annotate returning normally, the
\* labeled file there and the raw file gone: no worker runs the tool on, or
\* removes, a file another worker has removed.  (Stated for the frames the
\* tool labels: a worker that raised did so on a frame no worker labeled,
\* and a run in which the tool wrote a labeled file did not raise.)
C19_DuplicatePathsSafe ==
  /\ pc = "pool" =>
       \A i \in 1..Len(tasks) :
         tasks[i].st = "raised" => ~\E inv \in call.tool : inv.f = tasks[i].f /\ inv.ok
  /\ \A k \in 1..Len(hist) :
       (hist[k].call.op = "run" /\ \E inv \in hist[k].call.tool : inv.ok) =>
         hist[k].ret.exc = ""

\* C20: the labeled path annotation derives from the raw path save_frame
\* returned is the labeled path save_frame tests, '<snapshot dir>/<5-digit
\* id>_<t>.jpg', also when a directory of the archive path holds '_raw':
\* for the output path of annotate_image and for the paths annotate returns.
C20_LabeledPathAgrees ==
  /\ \A i \in 1..Len(tasks) :
       (tasks[i].st # "queued" /\ RowsOf(tasks[i].f) # {}) =>
         /\ tasks[i].out = LabeledOf(tasks[i].f)
         /\ Dirname(tasks[i].out) = self.img_snapshots
  /\ (pc = "finish" /\ ~filenames.none) =>
       \A i \in 1..Len(filenames.list) :
         \E r \in 1..Len(archive) : filenames.list[i] = file_name(archive[r].id, archive[r].t)

====
